---- MODULE Spec2Model ----
\* Conway's Game of Life on a terminal (src/src/main.cpp): the grid, the
\* double-buffered grid, the generation rule, the simulation object
\* (seeding, tick, render) and the driver loop of main().
EXTENDS Integers, Sequences, FiniteSets

VARIABLES
    pc,          \* position of main(): "seed", "getch", "done", or "aborted"
                 \* after a failed assertion; "object" when a class is
                 \* exercised on its own
    width,       \* main's local `width`  (terminal columns, getmaxyx)
    height,      \* main's local `height` (terminal rows, getmaxyx)
    tick_ms,     \* main's local `tick_ms`
    running,     \* main's local `running`
    key,         \* the value last returned by getch()
    exit_status, \* <<>> while main runs, <<EXIT_SUCCESS>> once it returned
    buffer,      \* game_of_life::buffer, a double_buffered_grid
    i,           \* the constructor's loop variable `i`
    draw,        \* <<d>>: the value distribution(engine) returned last in the
                 \* running constructor; <<>> outside the constructor
    seeded,      \* the cells the seeding loop of the current game assigned,
                 \* in order
    rendered,    \* the glyphs the latest render() of the current game put on
                 \* the screen, a function of <<row, column>>; empty while
                 \* the game has not been rendered
    reads,       \* the cells the latest render() of the current game read,
                 \* in order
    gen,         \* number of tick() calls made on the current game
    seed0,       \* the front grid of the current game when its constructor
                 \* returned
    calls,       \* the member functions called by the latest step
    stale0,      \* the back grid of the current game when its constructor
                 \* returned
    touched      \* the cells <<x, y>> the latest next_generation() on the
                 \* current game accessed through grid::operator()

vars == <<pc, width, height, tick_ms, running, key, exit_status, buffer, i,
          draw, seeded, rendered, reads, gen, seed0, calls, stale0, touched>>

-----------------------------------------------------------------------------
\* Bounds of the model.

\* The grids given to the rule on its own have at most this many cells.
MaxCells == 8
\* The pattern grids (origin cell, block, blinker) have sides up to this.
MaxSide == 6
\* The terminal has at most this many character cells (rows * columns).
MaxTermArea == 2
\* At most this many ticks are applied to one game.
MaxGenerations == 2
\* The double-buffered grid exercised on its own has at most this many cells.
MaxBufCells == 2
MaxStaleCells == 6   \* cells of a grid whose back buffer holds stale contents

-----------------------------------------------------------------------------
\* Program constants.

min_tick_ms == 16
max_tick_ms == 1024
initial_tick_ms == 32
frequency == 3
EXIT_SUCCESS == 0

KEY_RESIZE == "KEY_RESIZE"
ERR == "ERR"

full == "full"
upper == "upper"
lower == "lower"
blank == " "

-----------------------------------------------------------------------------
\* class grid

\* grid(w, h): storage for w * h cells is allocated and no cell has a value
\* yet. data maps the index of every cell that has been assigned to its value;
\* a cell outside DOMAIN data is indeterminate and reading it is an error.
grid(w, h) ==
    [width |-> w, height |-> h, size |-> w * h, data |-> [k \in {} |-> FALSE]]

\* The assertion of operator().
InBounds(g, x, y) == 0 <= x /\ x < g.width /\ 0 <= y /\ y < g.height

\* operator()(x, y) const: the value of data[x + y * width].
Get(g, x, y) == g.data[x + y * g.width]

\* operator()(x, y) = v: assignment through the returned reference. When the
\* assertion fails no assignment is made.
Set(g, x, y, v) ==
    LET idx == x + y * g.width
    IN  IF ~InBounds(g, x, y)
        THEN g
        ELSE [g EXCEPT !.data = [k \in DOMAIN g.data \cup {idx} |->
                                    IF k = idx THEN v ELSE g.data[k]]]

-----------------------------------------------------------------------------
\* class double_buffered_grid

double_buffered_grid(w, h) == [first |-> TRUE, a |-> grid(w, h), b |-> grid(w, h)]

front(buf) == IF buf.first THEN buf.a ELSE buf.b

back(buf) == IF buf.first THEN buf.b ELSE buf.a

\* The effect of changing the grid back() refers to into g.
with_back(buf, g) == IF buf.first THEN [buf EXCEPT !.b = g] ELSE [buf EXCEPT !.a = g]

\* A variant of swap that copies the back grid over the front grid and leaves
\* the selector alone.
swap_by_copy(buf) == IF buf.first THEN [buf EXCEPT !.a = buf.b] ELSE [buf EXCEPT !.b = buf.a]

swap(buf) == [buf EXCEPT !.first = ~buf.first]

-----------------------------------------------------------------------------
\* next_generation

\* A variant of neighbours on a torus: the neighbours of an edge cell wrap
\* around to the opposite edge.
neighbours_wrapped(in, x, y) ==
    LET l == (x - 1) % in.width
        r == (x + 1) % in.width
        u == (y - 1) % in.height
        d == (y + 1) % in.height
    IN  (IF Get(in, l, u) THEN 1 ELSE 0) + (IF Get(in, l, y) THEN 1 ELSE 0) +
        (IF Get(in, l, d) THEN 1 ELSE 0) + (IF Get(in, x, u) THEN 1 ELSE 0) +
        (IF Get(in, x, d) THEN 1 ELSE 0) + (IF Get(in, r, u) THEN 1 ELSE 0) +
        (IF Get(in, r, y) THEN 1 ELSE 0) + (IF Get(in, r, d) THEN 1 ELSE 0)

\* The neighbour count of cell (x, y) as the loop body computes it; every read
\* of a neighbour is behind its left/up/right/down guards.
neighbours(in, x, y) ==
    LET left == x # 0
        up == y # 0
        right == x # in.width - 1
        down == y # in.height - 1
    IN  (IF left /\ up /\ Get(in, x - 1, y - 1) THEN 1 ELSE 0) +
        (IF left /\ Get(in, x - 1, y) THEN 1 ELSE 0) +
        (IF left /\ down /\ Get(in, x - 1, y + 1) THEN 1 ELSE 0) +
        (IF up /\ Get(in, x, y - 1) THEN 1 ELSE 0) +
        (IF down /\ Get(in, x, y + 1) THEN 1 ELSE 0) +
        (IF right /\ up /\ Get(in, x + 1, y - 1) THEN 1 ELSE 0) +
        (IF right /\ Get(in, x + 1, y) THEN 1 ELSE 0) +
        (IF right /\ down /\ Get(in, x + 1, y + 1) THEN 1 ELSE 0)

\* A variant of next_cell without death by overpopulation.
next_cell_crowded(in, x, y) ==
    IF Get(in, x, y) THEN neighbours(in, x, y) >= 2 ELSE neighbours(in, x, y) = 3

\* A variant of next_cell in which a dead cell with two neighbours is born.
next_cell_born_of_two(in, x, y) ==
    IF Get(in, x, y)
    THEN neighbours(in, x, y) = 2 \/ neighbours(in, x, y) = 3
    ELSE neighbours(in, x, y) = 2 \/ neighbours(in, x, y) = 3

\* A variant of next_cell in which only two neighbours keep a cell alive.
next_cell_two_only(in, x, y) ==
    IF Get(in, x, y) THEN neighbours(in, x, y) = 2 ELSE neighbours(in, x, y) = 3

\* The value the loop body assigns to out(x, y).
next_cell(in, x, y) ==
    LET currently_alive == Get(in, x, y)
        n == neighbours(in, x, y)
    IN  IF currently_alive THEN n = 2 \/ n = 3 ELSE n = 3

\* A variant of next_generation_row that assigns only the cells that are alive
\* in the next generation and leaves the others as they were in `out`.
next_generation_row_alive_only(in, out, y) ==
    LET row == {x + y * out.width : x \in 0..(in.width - 1)}
        born == {k \in row : next_cell(in, k - y * out.width, y)}
    IN  [out EXCEPT !.data = [k \in DOMAIN out.data \cup born |->
                                 IF k \in born THEN TRUE ELSE out.data[k]]]

\* One run of the inner loop: every cell (x, y) of row y, 0 <= x < in.width,
\* is assigned next_cell(in, x, y) in `out`.
next_generation_row(in, out, y) ==
    LET row == {x + y * out.width : x \in 0..(in.width - 1)}
    IN  [out EXCEPT !.data = [k \in DOMAIN out.data \cup row |->
                                 IF k \in row
                                 THEN next_cell(in, k - y * out.width, y)
                                 ELSE out.data[k]]]

RECURSIVE next_generation_rows(_, _, _)
\* The outer loop from row y on; the result is `out` when the loop ends.
next_generation_rows(in, out, y) ==
    IF y = in.height THEN out
    ELSE next_generation_rows(in, next_generation_row(in, out, y), y + 1)

\* A variant of neighbour_reads without the `right` guard on the cell to the
\* right.
neighbour_reads_unguarded(in, x, y) ==
    LET left == x # 0
        up == y # 0
        right == x # in.width - 1
        down == y # in.height - 1
    IN  {p \in {<<x - 1, y - 1>>} : left /\ up} \cup
        {p \in {<<x - 1, y>>} : left} \cup
        {p \in {<<x - 1, y + 1>>} : left /\ down} \cup
        {p \in {<<x, y - 1>>} : up} \cup
        {p \in {<<x, y + 1>>} : down} \cup
        {p \in {<<x + 1, y - 1>>} : right /\ up} \cup
        {<<x + 1, y>>} \cup
        {p \in {<<x + 1, y + 1>>} : right /\ down}

\* The neighbour cells in(..) is called for while the count of cell (x, y) is
\* computed: && evaluates in(..) exactly when the guards before it are true.
neighbour_reads(in, x, y) ==
    LET left == x # 0
        up == y # 0
        right == x # in.width - 1
        down == y # in.height - 1
    IN  {p \in {<<x - 1, y - 1>>} : left /\ up} \cup
        {p \in {<<x - 1, y>>} : left} \cup
        {p \in {<<x - 1, y + 1>>} : left /\ down} \cup
        {p \in {<<x, y - 1>>} : up} \cup
        {p \in {<<x, y + 1>>} : down} \cup
        {p \in {<<x + 1, y - 1>>} : right /\ up} \cup
        {p \in {<<x + 1, y>>} : right} \cup
        {p \in {<<x + 1, y + 1>>} : right /\ down}

\* The cells next_generation(in, out) calls operator() for, on `in` or on
\* `out`: for every (x, y) the loops visit, the cell itself (read in `in`,
\* assigned in `out`) and the neighbours read.
next_generation_accesses(in) ==
    UNION {{<<x, y>>} \cup neighbour_reads(in, x, y) :
           x \in 0..(in.width - 1), y \in 0..(in.height - 1)}

\* next_generation(in, out): the grid `out` is after the call. The assertion
\* makes the two grids of equal size.
next_generation(in, out) == next_generation_rows(in, out, 0)

-----------------------------------------------------------------------------
\* class game_of_life

\* The assertion of render().
render_asserts(g) == g.height % 2 = 0

\* A variant of render_effect in which render() copies the front grid into
\* the back grid.
render_copies_front(buf) == with_back(buf, front(buf))

\* render() const: the buffer after the call.
render_effect(buf) == buf

\* A variant of tick that does not swap.
tick_without_swap(buf) == with_back(buf, next_generation(front(buf), back(buf)))

\* tick(): the buffer after the call.
tick(buf) == swap(with_back(buf, next_generation(front(buf), back(buf))))

\* A variant of glyph with the two half blocks exchanged.
glyph_halves_exchanged(top, bottom) ==
    IF top THEN (IF bottom THEN full ELSE lower)
           ELSE (IF bottom THEN upper ELSE blank)

\* The glyph render() passes to addstr for one pair of cells.
glyph(top, bottom) ==
    IF top THEN (IF bottom THEN full ELSE upper)
           ELSE (IF bottom THEN lower ELSE blank)

\* One run of the inner loop of render() for the row pair (y, y + 1):
\* move(y / 2, 0), then for every column x the cells (x, y) and (x, y + 1) are
\* read and addstr puts their glyph at the cursor, which it moves one column
\* to the right.
render_row(g, y, st) ==
    LET line == {<<y \div 2, x>> : x \in 0..(g.width - 1)}
    IN  [frame |-> [p \in DOMAIN st.frame \cup line |->
                       IF p \in line
                       THEN glyph(Get(g, p[2], y), Get(g, p[2], y + 1))
                       ELSE st.frame[p]],
         reads |-> st.reads \o [k \in 1..(2 * g.width) |->
                                   <<(k - 1) \div 2, y + ((k - 1) % 2)>>]]

RECURSIVE render_rows(_, _, _)
\* The outer loop of render() from row y on, in steps of two rows.
render_rows(g, y, st) ==
    IF y = g.height THEN st
    ELSE render_rows(g, y + 2, render_row(g, y, st))

\* render() of grid g: the glyphs put on the screen and the cells read.
render(g) == render_rows(g, 0, [frame |-> [p \in {} |-> blank], reads |-> <<>>])

-----------------------------------------------------------------------------
\* main(): the driver.

NoKey == "none"

\* The keys getch() can return: the resize event, the keys main tests for,
\* ERR when the timeout passes without input, and some other key.
Keys == {KEY_RESIZE, "-", "+", "p", " ", "s", "q", ERR, "x"}

\* getmaxyx: the sizes <<rows, columns>> the terminal can have.
TermSizes ==
    {sz \in (1..MaxTermArea) \X (1..MaxTermArea) : sz[1] * sz[2] <= MaxTermArea}

\* A variant of game_size without the doubling.
game_size_not_doubled(rows, cols) == <<cols, rows>>

\* The <<width, height>> main constructs a game with for a terminal of
\* `rows` rows and `cols` columns (lines 212 and 223).
game_size(rows, cols) == <<cols, rows * 2>>

\* A variant of faster without the lower limit.
faster_without_limit(k, t) == IF k = "+" THEN t \div 2 ELSE t

\* The cell the seeding loop assigns in iteration k on a grid of width w.
seed_position(k, w) == <<k % w, k \div w>>

\* A variant of seed_alive in which the largest draw makes a cell alive.
seed_alive_on_frequency(d) == d = frequency

\* The value the seeding loop assigns for the draw d.
seed_alive(d) == d = 0

\* "Decrease speed": tick_ms after the test of lines 229-232.
slower(k, t) == IF k = "-" /\ t < max_tick_ms THEN t * 2 ELSE t

\* "Increase speed": tick_ms after the test of lines 235-238.
faster(k, t) == IF k = "+" /\ t > min_tick_ms THEN t \div 2 ELSE t

\* "Play/pause": running after the test of lines 241-243.
toggled(k, r) == IF k = "p" \/ k = " " THEN ~r ELSE r

\* A variant of steps in which 's' is ignored.
steps_running_only(k, r) == r

\* The condition of line 246 under which the iteration ticks and renders,
\* r being running after the play/pause test.
steps(k, r) == r \/ k = "s"

\* A variant of quits in which the input timeout ends the loop too.
quits_on_timeout(k) == k = "q" \/ k = ERR

\* The condition of line 252 under which the loop ends.
quits(k) == k = "q"

\* main up to the constructor call of line 212: the locals are initialised,
\* the terminal size is read and the constructor has allocated the buffer.
Init ==
    /\ pc = "seed"
    /\ \E sz \in TermSizes :
          /\ height = sz[1]
          /\ width = sz[2]
          /\ buffer = double_buffered_grid(game_size(sz[1], sz[2])[1],
                                           game_size(sz[1], sz[2])[2])
          /\ seed0 = front(buffer)
          /\ stale0 = back(buffer)
    /\ tick_ms = initial_tick_ms
    /\ running = TRUE
    /\ key = NoKey
    /\ exit_status = <<>>
    /\ i = 0
    /\ draw = <<>>
    /\ seeded = <<>>
    /\ rendered = [p \in {} |-> blank]
    /\ reads = <<>>
    /\ gen = 0
    /\ calls = <<"game_of_life">>
    /\ touched = {}

\* One iteration of the constructor's seeding loop.
SeedStep ==
    /\ pc = "seed"
    /\ i # back(buffer).width * back(buffer).height
    /\ \E d \in 0..frequency :
          LET pos == seed_position(i, back(buffer).width)
          IN  /\ buffer' = with_back(buffer,
                                     Set(back(buffer), pos[1], pos[2], seed_alive(d)))
              /\ draw' = <<d>>
              /\ seeded' = Append(seeded, pos)
    /\ i' = i + 1
    /\ UNCHANGED <<pc, width, height, tick_ms, running, key, exit_status,
                   rendered, reads, gen, seed0, calls, stale0, touched>>

\* A variant of Constructed without the `continue` of line 225: after a
\* resize the rest of the loop body runs, which ticks and renders when running.
Constructed_falls_through ==
    /\ pc = "seed"
    /\ i = back(buffer).width * back(buffer).height
    /\ render_asserts(back(buffer))
    /\ LET fell == key = KEY_RESIZE /\ running
           buf == IF fell THEN tick(swap(buffer)) ELSE swap(buffer)
       IN  /\ buffer' = buf
           /\ rendered' = render(front(buf)).frame
           /\ reads' = render(front(buf)).reads
           /\ gen' = IF fell THEN 1 ELSE 0
           /\ touched' = IF fell THEN next_generation_accesses(back(buffer)) ELSE touched
           /\ calls' = IF fell THEN <<"game_of_life", "render", "tick", "render">>
                               ELSE <<"game_of_life", "render">>
    /\ seed0' = back(buffer)
    /\ stale0' = front(buffer)
    /\ i' = 0
    /\ draw' = <<>>
    /\ pc' = "getch"
    /\ UNCHANGED <<width, height, tick_ms, running, key, exit_status, seeded>>

\* The seeding loop has ended: the constructor swaps and returns, and main
\* renders the new game (lines 158, 215 and 224); after a resize the rest of
\* the iteration is skipped (line 225). When the assertion of render() fails
\* the program is aborted.
Constructed ==
    /\ pc = "seed"
    /\ i = back(buffer).width * back(buffer).height
    /\ buffer' = render_effect(swap(buffer))
    /\ IF render_asserts(front(buffer'))
       THEN /\ LET r == render(front(buffer'))
               IN  rendered' = r.frame /\ reads' = r.reads
            /\ pc' = "getch"
       ELSE /\ pc' = "aborted"
            /\ UNCHANGED <<rendered, reads>>
    /\ seed0' = front(buffer')
    /\ stale0' = back(buffer')
    /\ gen' = 0
    /\ i' = 0
    /\ draw' = <<>>
    /\ calls' = <<"game_of_life", "render">>
    /\ UNCHANGED <<width, height, tick_ms, running, key, exit_status, seeded,
                   touched>>

\* getch() returned KEY_RESIZE: the size is read again and a new game is
\* constructed (lines 221-223); the rest of the iteration is skipped.
Resize ==
    /\ pc = "getch"
    /\ key' = KEY_RESIZE
    /\ \E sz \in TermSizes :
          /\ height' = sz[1]
          /\ width' = sz[2]
          /\ buffer' = double_buffered_grid(game_size(sz[1], sz[2])[1],
                                            game_size(sz[1], sz[2])[2])
          /\ seed0' = front(buffer')
          /\ stale0' = back(buffer')
    /\ i' = 0
    /\ seeded' = <<>>
    /\ gen' = 0
    /\ calls' = <<"game_of_life">>
    /\ rendered' = [p \in {} |-> blank]
    /\ reads' = <<>>
    /\ touched' = {}
    /\ pc' = "seed"
    /\ UNCHANGED <<tick_ms, running, exit_status, draw>>

\* A variant of Iteration without the render() of line 248.
Iteration_without_render(k) ==
    LET run == toggled(k, running)
        step == steps(k, run)
    IN  /\ pc = "getch"
        /\ k # KEY_RESIZE
        /\ step => gen < MaxGenerations
        /\ key' = k
        /\ tick_ms' = faster(k, slower(k, tick_ms))
        /\ running' = run
        /\ IF step
           THEN /\ buffer' = tick(buffer)
                /\ touched' = next_generation_accesses(front(buffer))
                /\ gen' = gen + 1
                /\ calls' = <<"tick">>
           ELSE /\ calls' = <<>>
                /\ UNCHANGED <<buffer, gen, touched>>
        /\ IF quits(k)
           THEN pc' = "done" /\ exit_status' = <<EXIT_SUCCESS>>
           ELSE pc' = "getch" /\ UNCHANGED exit_status
        /\ UNCHANGED <<width, height, i, draw, seeded, seed0, stale0, rendered,
                       reads>>

\* getch() returned k, not KEY_RESIZE: the rest of the loop body
\* (lines 229-254). When the assertion of render() fails the program is
\* aborted. The model stops a game after MaxGenerations ticks.
Iteration(k) ==
    LET run == toggled(k, running)
        step == steps(k, run)
        failed == step /\ ~render_asserts(front(buffer))
    IN  /\ pc = "getch"
        /\ k # KEY_RESIZE
        /\ step => gen < MaxGenerations
        /\ key' = k
        /\ tick_ms' = faster(k, slower(k, tick_ms))
        /\ running' = run
        /\ IF step
           THEN /\ buffer' = render_effect(tick(buffer))
                /\ touched' = next_generation_accesses(front(buffer))
                /\ IF failed
                   THEN UNCHANGED <<rendered, reads>>
                   ELSE LET r == render(front(buffer'))
                        IN  rendered' = r.frame /\ reads' = r.reads
                /\ gen' = gen + 1
                /\ calls' = <<"tick", "render">>
           ELSE /\ calls' = <<>>
                /\ UNCHANGED <<buffer, rendered, reads, gen, touched>>
        /\ IF failed
           THEN pc' = "aborted" /\ UNCHANGED exit_status
           ELSE IF quits(k)
           THEN pc' = "done" /\ exit_status' = <<EXIT_SUCCESS>>
           ELSE pc' = "getch" /\ UNCHANGED exit_status
        /\ UNCHANGED <<width, height, i, draw, seeded, seed0, stale0>>

Loop == \E k \in Keys : Iteration(k)

Next == SeedStep \/ Constructed \/ Resize \/ Loop

Spec == Init /\ [][Next]_vars

-----------------------------------------------------------------------------
\* The simulation object on its own: a game_of_life whose constructor has
\* returned with a given seeded grid, then tick() and render() in any order.

\* The cells of a w x h grid.
Cells(w, h) == (0..(w - 1)) \X (0..(h - 1))

\* The w x h grid whose alive cells are the set `alive`.
GridOf(w, h, alive) ==
    [width |-> w, height |-> h, size |-> w * h,
     data |-> [k \in 0..(w * h - 1) |-> <<k % w, k \div w>> \in alive]]

\* Every grid of at most MaxCells cells.
AllGrids ==
    UNION {{GridOf(sz[1], sz[2], alive) : alive \in SUBSET Cells(sz[1], sz[2])} :
           sz \in {s \in (1..MaxCells) \X (1..MaxCells) : s[1] * s[2] <= MaxCells}}

\* Grids of every size up to MaxSide whose only alive cell is (0, 0).
OriginGrids == {GridOf(w, h, {<<0, 0>>}) : w \in 1..MaxSide, h \in 1..MaxSide}

\* The 2 x 2 block with top-left cell (bx, by).
Block(bx, by) == {<<bx, by>>, <<bx + 1, by>>, <<bx, by + 1>>, <<bx + 1, by + 1>>}

\* A block at every position of every grid of sides 2..MaxSide.
BlockGrids ==
    UNION {{GridOf(w, h, Block(p[1], p[2])) : p \in Cells(w - 1, h - 1)} :
           w \in 2..MaxSide, h \in 2..MaxSide}

HorizontalBlinker == {<<1, 2>>, <<2, 2>>, <<3, 2>>}

VerticalBlinker == {<<2, 1>>, <<2, 2>>, <<2, 3>>}

\* The horizontal blinker on every grid of sides 5..MaxSide.
BlinkerGrids == {GridOf(w, h, HorizontalBlinker) : w \in 5..MaxSide, h \in 5..MaxSide}

LifeInputs == AllGrids \cup OriginGrids \cup BlockGrids \cup BlinkerGrids

\* The state the constructor leaves: grid b seeded with g and made the front,
\* grid a allocated and never assigned; main's locals as declared.
LifeInit ==
    /\ pc = "object"
    /\ \E g \in LifeInputs :
          /\ buffer = swap(with_back(double_buffered_grid(g.width, g.height), g))
          /\ seed0 = g
          /\ stale0 = grid(g.width, g.height)
    /\ width = 0
    /\ height = 0
    /\ tick_ms = initial_tick_ms
    /\ running = TRUE
    /\ key = NoKey
    /\ exit_status = <<>>
    /\ i = 0
    /\ draw = <<>>
    /\ seeded = <<>>
    /\ rendered = [p \in {} |-> blank]
    /\ reads = <<>>
    /\ gen = 0
    /\ calls = <<"game_of_life">>
    /\ touched = {}

\* game_of_life::tick(); the model stops after MaxGenerations ticks.
LifeTick ==
    /\ pc = "object"
    /\ gen < MaxGenerations
    /\ buffer' = tick(buffer)
    /\ gen' = gen + 1
    /\ calls' = <<"tick">>
    /\ touched' = next_generation_accesses(front(buffer))
    /\ UNCHANGED <<pc, width, height, tick_ms, running, key, exit_status, i,
                   draw, seeded, rendered, reads, seed0, stale0>>

\* game_of_life::render(), whose assertion requires an even height.
LifeRender ==
    /\ pc = "object"
    /\ render_asserts(front(buffer))
    /\ LET r == render(front(buffer))
       IN  rendered' = r.frame /\ reads' = r.reads
    /\ buffer' = render_effect(buffer)
    /\ calls' = <<"render">>
    /\ UNCHANGED <<pc, width, height, tick_ms, running, key, exit_status,
                   i, draw, seeded, gen, seed0, stale0, touched>>

LifeNext == LifeTick \/ LifeRender

SpecLife == LifeInit /\ [][LifeNext]_vars

-----------------------------------------------------------------------------
\* The double-buffered grid on its own: a fresh double_buffered_grid, then
\* assignments through back() and swap() in any order.

BufInit ==
    /\ pc = "object"
    /\ \E sz \in {s \in (1..MaxBufCells) \X (1..MaxBufCells) :
                     s[1] * s[2] <= MaxBufCells} :
          /\ buffer = double_buffered_grid(sz[1], sz[2])
          /\ seed0 = grid(sz[1], sz[2])
          /\ stale0 = grid(sz[1], sz[2])
    /\ width = 0
    /\ height = 0
    /\ tick_ms = initial_tick_ms
    /\ running = TRUE
    /\ key = NoKey
    /\ exit_status = <<>>
    /\ i = 0
    /\ draw = <<>>
    /\ seeded = <<>>
    /\ rendered = [p \in {} |-> blank]
    /\ reads = <<>>
    /\ gen = 0
    /\ calls = <<"double_buffered_grid">>
    /\ touched = {}

\* back()(x, y) = v
BufWrite ==
    /\ pc = "object"
    /\ \E c \in Cells(back(buffer).width, back(buffer).height), v \in BOOLEAN :
          buffer' = with_back(buffer, Set(back(buffer), c[1], c[2], v))
    /\ calls' = <<"back">>
    /\ UNCHANGED <<pc, width, height, tick_ms, running, key, exit_status, i,
                   draw, seeded, rendered, reads, gen, seed0, stale0, touched>>

\* swap()
BufSwap ==
    /\ pc = "object"
    /\ buffer' = swap(buffer)
    /\ calls' = <<"swap">>
    /\ UNCHANGED <<pc, width, height, tick_ms, running, key, exit_status, i,
                   draw, seeded, rendered, reads, gen, seed0, stale0, touched>>

BufNext == BufWrite \/ BufSwap

SpecBuffer == BufInit /\ [][BufNext]_vars

\* ---------------------------------------------------------------------------
\* game_of_life::tick() on a buffer whose back grid holds stale contents
\* ---------------------------------------------------------------------------

\* What the back grid of a w x h buffer can hold before a tick: the
\* indeterminate values of the allocation (line 40) or any earlier
\* generation.
StaleGrids(w, h) ==
    {grid(w, h)} \cup {GridOf(w, h, alive) : alive \in SUBSET Cells(w, h)}

\* A game of at most MaxStaleCells cells with any front grid and any stale
\* back grid.
StaleInit ==
    /\ pc = "object"
    /\ \E sz \in {s \in (1..MaxStaleCells) \X (1..MaxStaleCells) :
                     s[1] * s[2] <= MaxStaleCells} :
          \E alive \in SUBSET Cells(sz[1], sz[2]) :
             \E stale \in StaleGrids(sz[1], sz[2]) :
                LET g == GridOf(sz[1], sz[2], alive)
                    constructed ==
                        swap(with_back(double_buffered_grid(sz[1], sz[2]), g))
                IN  /\ buffer = with_back(constructed, stale)
                    /\ seed0 = g
                    /\ stale0 = stale
    /\ width = 0
    /\ height = 0
    /\ tick_ms = initial_tick_ms
    /\ running = TRUE
    /\ key = NoKey
    /\ exit_status = <<>>
    /\ i = 0
    /\ draw = <<>>
    /\ seeded = <<>>
    /\ rendered = [p \in {} |-> blank]
    /\ reads = <<>>
    /\ gen = 0
    /\ calls = <<"game_of_life">>
    /\ touched = {}

StaleNext == LifeTick

SpecStale == StaleInit /\ [][StaleNext]_vars

-----------------------------------------------------------------------------
\* The rules of the game as the specification words them, on one grid.

\* The alive cells of grid g.
Alive(g) == {c \in Cells(g.width, g.height) : Get(g, c[1], c[2])}

\* The cells of grid g among the 8 positions adjacent to (x, y).
Adjacent(g, x, y) ==
    {c \in Cells(g.width, g.height) :
        /\ c # <<x, y>>
        /\ c[1] - x \in {-1, 0, 1}
        /\ c[2] - y \in {-1, 0, 1}}

\* The number of alive cells of g adjacent to (x, y); positions outside the
\* grid contribute nothing.
AliveAdjacent(g, x, y) == Cardinality(Adjacent(g, x, y) \cap Alive(g))

\* Whether cell (x, y) is alive in the generation after g.
LifeRule(g, x, y) ==
    \/ <<x, y>> \in Alive(g) /\ AliveAdjacent(g, x, y) \in {2, 3}
    \/ <<x, y>> \notin Alive(g) /\ AliveAdjacent(g, x, y) = 3

\* The generation after g.
RuleGrid(g) ==
    GridOf(g.width, g.height,
           {c \in Cells(g.width, g.height) : LifeRule(g, c[1], c[2])})

RECURSIVE Generation(_, _)
\* The rule applied n times to g.
Generation(g, n) == IF n = 0 THEN g ELSE Generation(RuleGrid(g), n - 1)

\* Every cell of grid g has been assigned.
Assigned(g) == DOMAIN g.data = 0..(g.size - 1)

-----------------------------------------------------------------------------
\* C1: after next_generation(in, out) every cell out(x, y) is true iff in(x, y)
\* is alive with 2 or 3 alive adjacent in-grid cells, or dead with exactly 3;
\* positions outside the grid count as 0. (seed0 is `in`, the front after the
\* first tick is `out`.)
C1_GenerationRule ==
    gen = 1 =>
        /\ Assigned(front(buffer))
        /\ \A c \in Cells(seed0.width, seed0.height) :
              Get(front(buffer), c[1], c[2]) = LifeRule(seed0, c[1], c[2])

\* A tick has been applied to a grid that has a surviving cell, a dying cell, a
\* cell born and a dead cell with two alive neighbours that stays dead.
C1_Witness ==
    /\ pc = "object"
    /\ gen = 1
    /\ seed0.width = 4
    /\ Alive(seed0) = {<<0, 0>>, <<1, 0>>, <<0, 1>>, <<3, 0>>}
    /\ Alive(front(buffer)) = {<<0, 0>>, <<1, 0>>, <<0, 1>>, <<1, 1>>}

\* C2: after n calls of tick() on a game seeded with G0, the front buffer is
\* the rule applied n times to G0, whichever of the grids a and b is the front:
\* b after an even number of ticks, a after an odd number.
C2_TickAdvancesOneGeneration ==
    pc \in {"getch", "done"} =>
        /\ front(buffer) = Generation(seed0, gen)
        /\ buffer.first = (gen % 2 = 1)

\* Two ticks have been applied, each changed the grid, and grid b is the front
\* again.
C2_Witness ==
    /\ pc = "getch"
    /\ gen = 2
    /\ ~buffer.first
    /\ front(buffer) # back(buffer)
    /\ back(buffer) # seed0

\* C3: edges do not wrap. On a grid whose only alive cell is (0, 0) the cell
\* (0, 0) is dead after one generation; and a cell on an edge of the grid with
\* no alive cell among the in-grid positions adjacent to it is dead after one
\* generation, whatever is alive on the opposite edge or corner.
C3_EdgesDoNotWrap ==
    gen = 1 =>
        /\ Alive(seed0) = {<<0, 0>>} => ~Get(front(buffer), 0, 0)
        /\ \A c \in Cells(seed0.width, seed0.height) :
              (/\ c[1] \in {0, seed0.width - 1} \/ c[2] \in {0, seed0.height - 1}
               /\ Adjacent(seed0, c[1], c[2]) \cap Alive(seed0) = {})
              => ~Get(front(buffer), c[1], c[2])

\* One generation has been applied to a grid of at least 3 x 3 whose only
\* alive cell was (0, 0).
C3_Witness ==
    /\ gen = 1
    /\ Alive(seed0) = {<<0, 0>>}
    /\ seed0.width >= 3
    /\ seed0.height >= 3
    /\ Alive(front(buffer)) = {}

\* C4: on a grid of at least 5 x 5 whose alive cells are exactly (1,2), (2,2),
\* (3,2), one generation yields exactly (2,1), (2,2), (2,3) and a second one
\* yields (1,2), (2,2), (3,2) again.
C4_Blinker ==
    (/\ seed0.width >= 5
     /\ seed0.height >= 5
     /\ Alive(seed0) = HorizontalBlinker)
    => /\ gen = 1 => Alive(front(buffer)) = VerticalBlinker
       /\ gen = 2 => front(buffer) = seed0

\* Two generations have been applied to the horizontal blinker.
C4_Witness ==
    /\ gen = 2
    /\ seed0.width >= 5
    /\ seed0.height >= 5
    /\ Alive(seed0) = HorizontalBlinker
    /\ Alive(back(buffer)) = VerticalBlinker
    /\ Alive(front(buffer)) = HorizontalBlinker

\* C5: a 2 x 2 block of alive cells on an otherwise dead grid of at least
\* 2 x 2, at any position, is unchanged by one generation.
C5_BlockIsStill ==
    (/\ gen = 1
     /\ \E p \in Cells(seed0.width - 1, seed0.height - 1) :
           Alive(seed0) = Block(p[1], p[2]))
    => front(buffer) = seed0

\* One generation has been applied to a block in the bottom-right corner of a
\* grid larger than the block.
C5_Witness ==
    /\ gen = 1
    /\ seed0.width >= 3
    /\ seed0.height >= 3
    /\ Alive(seed0) = Block(seed0.width - 2, seed0.height - 2)
    /\ front(buffer) = seed0

\* The glyph the specification gives for a pair of cells.
PackedGlyph(top, bottom) ==
    CASE ~top /\ ~bottom -> blank
      [] top /\ ~bottom -> upper
      [] ~top /\ bottom -> lower
      [] top /\ bottom -> full

\* C6: for an even-height front grid render() puts, for every row pair
\* (y, y + 1) with y even and every column x, one glyph at screen row y / 2,
\* column x: space for two dead cells, the upper half block for alive over
\* dead, the lower half block for dead over alive, the full block for two
\* alive cells. The display is (height / 2) x width and every cell of the grid
\* is read exactly once.
C6_RenderPacking ==
    (calls # <<>> /\ calls[Len(calls)] = "render") =>
        LET g == front(buffer)
        IN  /\ DOMAIN rendered = (0..(g.height \div 2 - 1)) \X (0..(g.width - 1))
            /\ \A c \in Cells(g.width, g.height) :
                  c[2] % 2 = 0 =>
                      rendered[<<c[2] \div 2, c[1]>>] =
                          PackedGlyph(Get(g, c[1], c[2]), Get(g, c[1], c[2] + 1))
            /\ Len(reads) = g.width * g.height
            /\ \A c \in Cells(g.width, g.height) :
                  Cardinality({k \in 1..Len(reads) : reads[k] = c}) = 1

\* A grid of two row pairs and two columns has been rendered and shows all
\* four glyphs.
C6_Witness ==
    /\ calls = <<"render">>
    /\ front(buffer).height = 4
    /\ front(buffer).width = 2
    /\ {rendered[p] : p \in DOMAIN rendered} = {blank, upper, lower, full}

\* C7: swap() changes no cell of either grid and only flips the selector;
\* after it front() is the grid back() was, with the values written to it, and
\* back() is the grid front() was.
C7_SwapPreservesData ==
    [][calls' = <<"swap">> =>
          /\ buffer'.first = ~buffer.first
          /\ buffer'.a = buffer.a
          /\ buffer'.b = buffer.b
          /\ front(buffer') = back(buffer)
          /\ back(buffer') = front(buffer)]_vars

\* Both cells of grid b were written through back(), then swap() was called:
\* b is the front and holds the values written, a was never written.
C7_Witness ==
    /\ calls = <<"swap">>
    /\ ~buffer.first
    /\ buffer.b.size = 2
    /\ Assigned(buffer.b)
    /\ buffer.b.data[0]
    /\ ~buffer.b.data[1]
    /\ DOMAIN buffer.a.data = {}

\* The cells of grid g in the order of the claim: cell (k % width, k / width)
\* for k = 0, 1, ..., width * height - 1.
SeedOrder(g) ==
    [k \in 1..(g.width * g.height) |-> <<(k - 1) % g.width, (k - 1) \div g.width>>]

\* C8: iteration i of the seeding loop assigns cell (i % width, i / width) of
\* the back grid, alive iff the draw from 0..3 was 0, and nothing else; the
\* loop over 0..width*height-1 assigns every cell exactly once; and when the
\* constructor has returned the front buffer is that seeded grid, the other
\* grid has never been assigned and no tick has been applied.
C8_Seeding ==
    /\ [](pc = "seed" =>
             /\ i <= back(buffer).size
             /\ seeded = SubSeq(SeedOrder(back(buffer)), 1, i)
             /\ DOMAIN front(buffer).data = {})
    /\ []((pc = "getch" /\ gen = 0) =>
             /\ Assigned(front(buffer))
             /\ DOMAIN back(buffer).data = {}
             /\ front(buffer) = seed0
             /\ seeded = SeedOrder(front(buffer))
             /\ \A c \in Cells(front(buffer).width, front(buffer).height) :
                   Cardinality({k \in 1..Len(seeded) : seeded[k] = c}) = 1)
    /\ [][(pc = "seed" /\ i' = i + 1) =>
             /\ draw' \in {<<d>> : d \in 0..3}
             /\ Get(back(buffer'), i % back(buffer).width, i \div back(buffer).width)
                   = (draw' = <<0>>)
             /\ \A k \in 1..i :
                   Get(back(buffer'), seeded[k][1], seeded[k][2]) =
                       Get(back(buffer), seeded[k][1], seeded[k][2])
             /\ front(buffer') = front(buffer)]_vars
    /\ [][(pc = "seed" /\ pc' = "getch") =>
             /\ front(buffer') = back(buffer)
             /\ back(buffer') = front(buffer)
             /\ gen' = 0]_vars

\* The constructor called on a resize has returned with a 2 x 2 grid seeded
\* with alive and dead cells, and no tick has been applied.
C8_Witness ==
    /\ pc = "getch"
    /\ key = KEY_RESIZE
    /\ gen = 0
    /\ front(buffer).width = 2
    /\ front(buffer).height = 2
    /\ Alive(front(buffer)) = {<<1, 0>>, <<0, 1>>}
    /\ calls = <<"game_of_life", "render">>

\* C9: in an iteration whose key is not the resize event, 'p' or space flips
\* running and no other key changes it; tick() followed by render() is called
\* iff running is true after that or the key is 's', once, and advances the
\* front by exactly one generation; otherwise the game is untouched. So while
\* paused the generation changes only on 's', by one.
C9_PauseAndStep ==
    [][(pc = "getch" /\ pc' # "seed") =>
          LET ticked == running' \/ key' = "s"
          IN  /\ running' = (IF key' \in {"p", " "} THEN ~running ELSE running)
              /\ calls' = (IF ticked THEN <<"tick", "render">> ELSE <<>>)
              /\ gen' = (IF ticked THEN gen + 1 ELSE gen)
              /\ ticked => front(buffer') = RuleGrid(front(buffer))
              /\ ~ticked => buffer' = buffer
              /\ ~running' => (gen' # gen <=> key' = "s")]_vars

\* Paused, 's' has been read twice and the game is two generations on.
C9_Witness ==
    /\ pc = "getch"
    /\ ~running
    /\ key = "s"
    /\ gen = 2
    /\ calls = <<"tick", "render">>
    /\ front(buffer) # back(buffer)

\* C10: the driver loop has ended iff the key last read is 'q', and then main
\* has returned EXIT_SUCCESS: reading 'q' ends the loop in that iteration, and
\* no other key, no resize and no input timeout ends it.
C10_Quit ==
    /\ pc = "done" <=> key = "q"
    /\ pc = "done" <=> exit_status = <<EXIT_SUCCESS>>
    /\ pc # "done" => exit_status = <<>>

\* 'q' has been read while paused at a tick interval other than the initial
\* one, and main has returned.
C10_Witness ==
    /\ pc = "done"
    /\ key = "q"
    /\ ~running
    /\ tick_ms = 128
    /\ exit_status = <<EXIT_SUCCESS>>

\* The tick intervals the speed keys can reach from the initial one.
TickIntervals == {16, 32, 64, 128, 256, 512, 1024}

\* C11: tick_ms is 32 until a key is read and always one of 16, 32, 64, 128,
\* 256, 512, 1024; an iteration that read '-' doubles it exactly when it was
\* below 1024, one that read '+' halves it exactly when it was above 16, and
\* any other step leaves it alone; an iteration that read a speed key keeps
\* the running flag, and changes the board by one generation when running
\* and not at all when paused.
C11_SpeedControl ==
    /\ [](tick_ms \in TickIntervals)
    /\ [](key = NoKey => tick_ms = 32)
    /\ [][tick_ms' = IF pc = "getch" /\ key' = "-" /\ tick_ms < 1024
                        THEN tick_ms * 2
                     ELSE IF pc = "getch" /\ key' = "+" /\ tick_ms > 16
                        THEN tick_ms \div 2
                     ELSE tick_ms]_vars
    /\ [][pc = "getch" /\ key' \in {"-", "+"} =>
            /\ running' = running
            /\ pc' = "getch"
            /\ IF running
               THEN /\ front(buffer') = RuleGrid(front(buffer))
                    /\ gen' = gen + 1
               ELSE buffer' = buffer /\ gen' = gen]_vars

\* Paused before any tick, the '-' key was read with the interval at its
\* upper limit.
C11_Witness ==
    /\ pc = "getch"
    /\ key = "-"
    /\ tick_ms = 1024
    /\ ~running
    /\ gen = 0

\* The frame that shows grid g: the terminal cell at <<row, column>> packs the
\* grid cells (column, 2 * row) and (column, 2 * row + 1).
FrameOf(g) ==
    [p \in (0..(g.height \div 2 - 1)) \X (0..(g.width - 1)) |->
        PackedGlyph(Get(g, p[2], 2 * p[1]), Get(g, p[2], 2 * p[1] + 1))]

\* C12: the step that reads KEY_RESIZE replaces the game by a newly allocated
\* one of size (columns, 2 x rows); from then until the next key is read
\* tick_ms, the running flag and the exit status are unchanged, no tick is
\* applied and the program does not leave the loop; when input is awaited
\* again the new game is seeded, at generation 0, and rendered.
C12_ResizeReplaces ==
    /\ [][pc = "getch" /\ key' = KEY_RESIZE =>
            /\ pc' = "seed"
            /\ buffer' = double_buffered_grid(width', 2 * height')
            /\ calls' = <<"game_of_life">>]_vars
    /\ [][key' = KEY_RESIZE =>
            /\ tick_ms' = tick_ms
            /\ running' = running
            /\ exit_status' = exit_status
            /\ gen' = 0
            /\ pc' \in {"seed", "getch"}
            /\ "tick" \notin {calls'[n] : n \in 1..Len(calls')}]_vars
    /\ [](pc = "getch" /\ key = KEY_RESIZE =>
            /\ front(buffer).width = width
            /\ front(buffer).height = 2 * height
            /\ Assigned(front(buffer))
            /\ front(buffer) = seed0
            /\ calls = <<"game_of_life", "render">>
            /\ rendered = FrameOf(front(buffer)))

\* A resize to two rows arrived while the simulation was running at a changed
\* speed: the new game awaits input, rendered and not ticked.
C12_Witness ==
    /\ pc = "getch"
    /\ key = KEY_RESIZE
    /\ running
    /\ tick_ms = 64
    /\ height = 2
    /\ front(buffer).height = 4
    /\ gen = 0
    /\ rendered # <<>>

\* C13: whatever the back grid held when the game was set up, a write through
\* back() leaves front() as it was, and after every tick the front grid is the
\* generation the rule gives from the previous front grid alone, with every
\* cell assigned, while the previous front grid is kept unmodified as the new
\* back grid; so games with equal front grids and different stale back grids
\* have equal front grids after tick().
C13_StaleBackIgnored ==
    /\ front(with_back(buffer, grid(back(buffer).width, back(buffer).height)))
          = front(buffer)
    /\ back(with_back(buffer, front(buffer))) = front(buffer)
    /\ front(buffer) = Generation(seed0, gen)
    /\ Assigned(front(buffer))
    /\ gen = 0 => back(buffer) = stale0
    /\ gen > 0 =>
          /\ back(buffer) = Generation(seed0, gen - 1)
          /\ touched = Cells(seed0.width, seed0.height)

\* A tick on a grid of two rows and two columns at least whose back grid held,
\* in every cell, the opposite of what the tick wrote there.
C13_Witness ==
    /\ gen = 1
    /\ calls = <<"tick">>
    /\ seed0.width >= 2
    /\ seed0.height >= 2
    /\ Assigned(stale0)
    /\ Alive(front(buffer)) # {}
    /\ Alive(stale0) # {}
    /\ \A c \in Cells(seed0.width, seed0.height) :
          Get(stale0, c[1], c[2]) # Get(front(buffer), c[1], c[2])

\* C14: the game main holds, constructed at start-up or on a resize, always
\* has height 2 x (terminal rows), as game_size gives an even height for every
\* number of rows; so the assertion of render() never fails: the program is
\* never aborted, and after every render call the frame has one row per
\* terminal row.
C14_RenderAssertionHolds ==
    /\ pc # "aborted"
    /\ front(buffer).height = 2 * height
    /\ back(buffer).height = 2 * height
    /\ render_asserts(front(buffer))
    /\ \A rows \in 0..MaxSide, cols \in 0..MaxSide :
          /\ game_size(rows, cols)[2] = 2 * rows
          /\ render_asserts(grid(game_size(rows, cols)[1],
                                 game_size(rows, cols)[2]))
    /\ (calls # <<>> /\ calls[Len(calls)] = "render") =>
          DOMAIN rendered = (0..(height - 1)) \X (0..(width - 1))

\* The game of a terminal of one row and two columns was rendered when
\* constructed, and so was its next generation.
C14_Witness ==
    /\ pc = "getch"
    /\ seeded # <<>>
    /\ height = 1
    /\ width = 2
    /\ front(buffer).height = 2
    /\ gen = 1
    /\ calls = <<"tick", "render">>
    /\ DOMAIN rendered = {<<0, 0>>, <<0, 1>>}

\* C15: every cell operator() is called for lies inside the grid, on grids of
\* every size (1x1, one column and one row included): the cells the latest
\* next_generation() accessed, the cells the latest render() read, and the
\* cell of every iteration of the seeding loop; the neighbours read for a cell
\* are inside the grid and are exactly the ones the neighbour count is made of.
C15_AccessesInBounds ==
    LET g == front(buffer)
    IN  /\ \A c \in touched : InBounds(g, c[1], c[2])
        /\ gen > 0 => touched = Cells(g.width, g.height)
        /\ \A n \in 1..Len(reads) : InBounds(g, reads[n][1], reads[n][2])
        /\ \A k \in 0..(g.width * g.height - 1) :
              InBounds(g, seed_position(k, g.width)[1],
                          seed_position(k, g.width)[2])
        /\ \A c \in Cells(g.width, g.height) :
              /\ \A p \in neighbour_reads(g, c[1], c[2]) :
                    InBounds(g, p[1], p[2])
              /\ neighbours(g, c[1], c[2]) =
                    Cardinality({p \in neighbour_reads(g, c[1], c[2]) :
                                    Get(g, p[1], p[2])})

\* A grid of one column and four rows was ticked and then rendered.
C15_Witness ==
    /\ front(buffer).width = 1
    /\ front(buffer).height = 4
    /\ gen = 1
    /\ touched = Cells(1, 4)
    /\ calls = <<"render">>
    /\ Len(reads) = 4

\* C16: a render() step leaves both grids, the front/back selector and the
\* generation as they were, reads cells of the front grid only and shows a
\* frame that is a function of the front grid; so, however renders and ticks
\* interleave, each tick gives the rule's next generation and the front grid
\* is the generation counted by the ticks alone.
C16_RenderIsPure ==
    /\ [][calls' = <<"render">> =>
            /\ buffer' = buffer
            /\ gen' = gen
            /\ seed0' = seed0
            /\ \A n \in 1..Len(reads') :
                  <<reads'[n][1], reads'[n][2]>> \in
                     Cells(front(buffer).width, front(buffer).height)
            /\ rendered' = FrameOf(front(buffer))]_vars
    /\ [][calls' = <<"tick">> =>
            front(buffer') = RuleGrid(front(buffer))]_vars
    /\ [](front(buffer) = Generation(seed0, gen))

\* A render took place between the first tick and the second: the frame shows
\* the first generation, which differs from the seed and from the second.
C16_Witness ==
    /\ gen = 2
    /\ calls = <<"tick">>
    /\ rendered # <<>>
    /\ rendered = FrameOf(back(buffer))
    /\ rendered # FrameOf(seed0)
    /\ rendered # FrameOf(front(buffer))
    /\ front(buffer) = RuleGrid(back(buffer))

\* C17: whenever main waits in getch() the frame on the screen shows the front
\* grid of the current game; the calls of the step that led there, if it
\* constructed or ticked, end with render; and while no tick has been applied
\* the frame shows the seeded generation.
C17_DisplayNeverLags ==
    /\ pc = "getch" => rendered = FrameOf(front(buffer))
    /\ pc = "getch" =>
          calls \in {<<>>, <<"game_of_life", "render">>, <<"tick", "render">>}
    /\ (pc = "getch" /\ gen = 0) =>
          /\ front(buffer) = seed0
          /\ rendered = FrameOf(seed0)
    /\ (pc = "done" /\ calls # <<>>) => rendered = FrameOf(front(buffer))

\* The second generation of a seeded game is on the screen while main waits
\* for input, and it differs from the generation before it.
C17_Witness ==
    /\ pc = "getch"
    /\ seeded # <<>>
    /\ gen = 2
    /\ calls = <<"tick", "render">>
    /\ rendered = FrameOf(front(buffer))
    /\ rendered # FrameOf(back(buffer))

====
